---- MODULE Spec2Model ----
(***************************************************************************)
(* Model of function_app.py: the blob-triggered ingestion pipeline         *)
(*   blob_trigger -> process_ocr (submit, poll loop) -> extract_text ->    *)
(*   parse_extracted_text / extract_from_filename -> merge -> save_to_db.  *)
(*                                                                         *)
(* Texts are sequences of one-character strings, so that the regular       *)
(* expressions of the source are evaluated character by character.         *)
(* Python's None is the empty tuple and a set value v is the tuple <<v>>.  *)
(***************************************************************************)
EXTENDS Integers, Sequences, FiniteSets, TLC

None == <<>>
Some(v) == <<v>>

(***************************************************************************)
(* Characters and the character classes of Python's re module.             *)
(***************************************************************************)
UpperLetters ==
  <<"A","B","C","D","E","F","G","H","I","J","K","L","M",
    "N","O","P","Q","R","S","T","U","V","W","X","Y","Z">>

LowerLetters ==
  <<"a","b","c","d","e","f","g","h","i","j","k","l","m",
    "n","o","p","q","r","s","t","u","v","w","x","y","z">>

Digits == {"0","1","2","3","4","5","6","7","8","9"}

Range(f) == {f[i] : i \in DOMAIN f}

\* \w : letters, digits and the underscore
WordChars == Range(UpperLetters) \cup Range(LowerLetters) \cup Digits \cup {"_"}

IsWordChar(c) == c \in WordChars

\* \d
IsDigit(c) == c \in Digits

\* case folding used by re.IGNORECASE
LowerOf ==
  [u \in Range(UpperLetters) |->
     LowerLetters[CHOOSE i \in DOMAIN UpperLetters : UpperLetters[i] = u]]

Lower(c) == IF c \in DOMAIN LowerOf THEN LowerOf[c] ELSE c

\* one literal pattern character against one text character
CharEq(p, c, ignorecase) == IF ignorecase THEN Lower(p) = Lower(c) ELSE p = c

\* the literal lit matches s at position i (1-based)
LiteralAt(s, i, lit, ignorecase) ==
  /\ i >= 1
  /\ i + Len(lit) - 1 <= Len(s)
  /\ \A j \in 1..Len(lit) : CharEq(lit[j], s[i + j - 1], ignorecase)

\* \b at position i: between s[i-1] and s[i], exactly one is a word character
WordBoundary(s, i) ==
  LET before == i > 1 /\ i - 1 <= Len(s) /\ IsWordChar(s[i - 1])
      after  == i >= 1 /\ i <= Len(s) /\ IsWordChar(s[i])
  IN before # after

\* the ends e >= i of a non-empty run s[i..e] of characters satisfying the class
WordRunEnds(s, i) == {e \in i..Len(s) : \A j \in i..e : IsWordChar(s[j])}

DigitRunEnds(s, i) == {e \in i..Len(s) : \A j \in i..e : IsDigit(s[j])}

Max(S) == CHOOSE x \in S : \A y \in S : y <= x

Min(S) == CHOOSE x \in S : \A y \in S : x <= y

\* "\n".join(lines)
RECURSIVE Join(_)
Join(lines) ==
  IF Len(lines) = 0 THEN <<>>
  ELSE IF Len(lines) = 1 THEN lines[1]
  ELSE lines[1] \o <<"\n">> \o Join(Tail(lines))

\* literal in text (Python's substring test, case-sensitive)
Contains(text, lit) == \E i \in 1..Len(text) : LiteralAt(text, i, lit, FALSE)

\* re.search(rf"\b{lit}\b", text, re.IGNORECASE) finds a match
SearchWord(text, lit) ==
  \E i \in 1..Len(text) :
    /\ WordBoundary(text, i)
    /\ LiteralAt(text, i, lit, TRUE)
    /\ WordBoundary(text, i + Len(lit))

\* variant: the loop has no break, the last matching entry stays assigned
FirstMatchingWithoutBreak(patterns, matching) ==
  LET hits == {k \in DOMAIN patterns : patterns[k] \in matching}
  IN IF hits = {} THEN None ELSE Some(patterns[Max(hits)])

\* variant: a loop that matches nothing leaves its last entry assigned
FirstMatchingLeakingLast(patterns, matching) ==
  LET hits == {k \in DOMAIN patterns : patterns[k] \in matching}
  IN IF hits = {} THEN Some(patterns[Len(patterns)]) ELSE Some(patterns[Min(hits)])

\* the for ... if ... break loops: the first entry of the list that is among
\* the matching ones
FirstMatching(patterns, matching) ==
  LET hits == {k \in DOMAIN patterns : patterns[k] \in matching}
  IN IF hits = {} THEN None ELSE Some(patterns[Min(hits)])

(***************************************************************************)
(* Literals of the source.                                                 *)
(***************************************************************************)
FESTO == <<"F","E","S","T","O">>
Mitsubishi == <<"M","i","t","s","u","b","i","s","h","i">>
Siemens == <<"S","i","e","m","e","n","s">>
ABB == <<"A","B","B">>
Manual == <<"M","a","n","u","a","l">>
CircuitDiagrams == <<"C","i","r","c","u","i","t"," ","d","i","a","g","r","a","m","s">>
MaintenanceManual == <<"M","a","i","n","t","e","n","a","n","c","e"," ","M","a","n","u","a","l">>
Maintenance == <<"M","a","i","n","t","e","n","a","n","c","e">>
Robot == <<"R","o","b","o","t">>
Conveyor == <<"C","o","n","v","e","y","o","r">>
AssemblyCell == <<"A","s","s","e","m","b","l","y"," ","C","e","l","l">>
Motor == <<"M","o","t","o","r">>
Switch == <<"S","w","i","t","c","h">>
Grundmodul == <<"G","r","u","n","d","m","o","d","u","l">>

\* the literal prefixes of the model-number and serial-number patterns
CP_F_ == <<"C","P","-","F","-">>
S_Nr_ == <<"S","-","N","r",".">>
SN == <<"S","N">>

manufacturer_patterns == <<FESTO, Mitsubishi, Siemens, ABB>>
\* variant: the longer entry is listed before the entry it contains
document_type_patterns_longest_first == <<MaintenanceManual, Manual, CircuitDiagrams>>

document_type_patterns == <<Manual, CircuitDiagrams, MaintenanceManual>>
asset_type_patterns == <<Robot, Conveyor, AssemblyCell, Motor, Switch, Grundmodul>>

\* the alternation (Manual|Circuit diagrams|Maintenance) of the file-name pattern
filename_document_types == <<Manual, CircuitDiagrams, Maintenance>>

(***************************************************************************)
(* The regular-expression searches.  Each returns None or Some(group).     *)
(***************************************************************************)
\* re.search(r"\b(CP-F-\w+)\b", extracted_text): leftmost start, greedy \w+
\* backing off to the longest run that ends at a word boundary
ModelNumberEnds(text, i) ==
  IF WordBoundary(text, i) /\ LiteralAt(text, i, CP_F_, FALSE)
  THEN {e \in WordRunEnds(text, i + Len(CP_F_)) : WordBoundary(text, e + 1)}
  ELSE {}

model_number_match(text) ==
  LET starts == {i \in 1..Len(text) : ModelNumberEnds(text, i) # {}}
  IN IF starts = {} THEN None
     ELSE Some(SubSeq(text, Min(starts), Max(ModelNumberEnds(text, Min(starts)))))

\* re.search(r"\b(S\-Nr\.\d+|SN\d+)\b", extracted_text)
SerialEnds(text, i, prefix) ==
  IF WordBoundary(text, i) /\ LiteralAt(text, i, prefix, FALSE)
  THEN {e \in DigitRunEnds(text, i + Len(prefix)) : WordBoundary(text, e + 1)}
  ELSE {}

serial_number_match(text) ==
  LET starts == {i \in 1..Len(text) :
                   SerialEnds(text, i, S_Nr_) \cup SerialEnds(text, i, SN) # {}}
      i0 == Min(starts)
  IN IF starts = {} THEN None
     ELSE IF SerialEnds(text, i0, S_Nr_) # {}
          THEN Some(SubSeq(text, i0, Max(SerialEnds(text, i0, S_Nr_))))
          ELSE Some(SubSeq(text, i0, Max(SerialEnds(text, i0, SN))))

\* re.search(r"CP-F-\w+", filename): no word boundaries, greedy \w+
asset_type_match(filename) ==
  LET ends(i) == IF LiteralAt(filename, i, CP_F_, FALSE)
                 THEN WordRunEnds(filename, i + Len(CP_F_)) ELSE {}
      starts == {i \in 1..Len(filename) : ends(i) # {}}
  IN IF starts = {} THEN None
     ELSE Some(SubSeq(filename, Min(starts), Max(ends(Min(starts)))))

\* re.search(r"(Manual|Circuit diagrams|Maintenance)", filename, re.IGNORECASE):
\* leftmost start, first alternative that matches there; the group is the
\* text of the file name, in the file name's letter case
document_type_match(filename) ==
  LET alts(i) == {k \in DOMAIN filename_document_types :
                    LiteralAt(filename, i, filename_document_types[k], TRUE)}
      starts == {i \in 1..Len(filename) : alts(i) # {}}
      i0 == Min(starts)
  IN IF starts = {} THEN None
     ELSE Some(SubSeq(filename, i0,
                      i0 + Len(filename_document_types[Min(alts(i0))]) - 1))

(***************************************************************************)
(* The field extractors.                                                   *)
(***************************************************************************)
extract_from_filename(filename) ==
  [AssetType    |-> asset_type_match(filename),
   DocumentType |-> document_type_match(filename)]

\* lines 165-167: ModelNumber is dropped when it equals AssetType
DropCollidingModelNumber(parsed_data) ==
  IF parsed_data.ModelNumber = parsed_data.AssetType
  THEN [parsed_data EXCEPT !.ModelNumber = None]
  ELSE parsed_data

ManufacturerMatches(text, manufacturer) == Contains(text, manufacturer)

DocumentTypeMatches(text, doc_type) == SearchWord(text, doc_type)

AssetTypeMatches(text, asset_type) == SearchWord(text, asset_type)

parse_extracted_text(extracted_text) ==
  LET manufacturers == {m \in Range(manufacturer_patterns) :
                          ManufacturerMatches(extracted_text, m)}
      doc_types == {d \in Range(document_type_patterns) :
                      DocumentTypeMatches(extracted_text, d)}
      asset_types == {a \in Range(asset_type_patterns) :
                        AssetTypeMatches(extracted_text, a)}
  IN DropCollidingModelNumber(
       [AssetType    |-> FirstMatching(asset_type_patterns, asset_types),
        Manufacturer |-> FirstMatching(manufacturer_patterns, manufacturers),
        ModelNumber  |-> model_number_match(extracted_text),
        SerialNumber |-> serial_number_match(extracted_text),
        DocumentType |-> FirstMatching(document_type_patterns, doc_types)])

\* {**parsed_data_from_text, **parsed_data_from_filename}: every key of the
\* right operand, whatever its value, replaces the left operand's
MergeDicts(left, right) ==
  [k \in DOMAIN left \cup DOMAIN right |->
     IF k \in DOMAIN right THEN right[k] ELSE left[k]]

(***************************************************************************)
(* Exceptions.  An exception is a record [type, message]; Bases gives the  *)
(* classes an except clause naming them catches.                           *)
(***************************************************************************)
Bases ==
  [Exception       |-> {"Exception"},
   KeyError        |-> {"KeyError", "LookupError", "Exception"},
   IndexError      |-> {"IndexError", "LookupError", "Exception"},
   JSONDecodeError |-> {"JSONDecodeError", "ValueError", "Exception"},
   ConnectionError |-> {"ConnectionError", "OSError", "Exception"},
   OSError         |-> {"OSError", "Exception"},
   PyodbcError     |-> {"PyodbcError", "Exception"}]

Exc(type, message) == [type |-> type, message |-> message]

\* does "except <clause>" catch e
Catches(clause, e) == clause \in Bases[e.type]

SubmissionFailed == Exc("Exception", "OCR API call failed")
LocatorMissing == Exc("Exception", "Operation-Location header is missing from OCR API response.")
ProcessingFailed == Exc("Exception", "OCR processing failed.")
TimedOut == Exc("Exception", "OCR processing took too long or did not complete.")
ExtractionFailed == Exc("Exception", "Failed to extract text from OCR result")

(***************************************************************************)
(* The recognition payload and extract_text.                               *)
(***************************************************************************)
\* a result whose first read result holds the given lines
AnalyzeResult(lines) ==
  [readResults |-> << [lines |-> [i \in 1..Len(lines) |-> [text |-> lines[i]]]] >>]

Succeeded(lines) == [status |-> "succeeded", analyzeResult |-> AnalyzeResult(lines)]

\* ocr_result["analyzeResult"]["readResults"][0]["lines"] and line["text"]:
\* the exception the look-ups raise, or None
LookupError(ocr_result) ==
  IF "analyzeResult" \notin DOMAIN ocr_result
  THEN Some(Exc("KeyError", "analyzeResult"))
  ELSE IF "readResults" \notin DOMAIN ocr_result.analyzeResult
  THEN Some(Exc("KeyError", "readResults"))
  ELSE IF Len(ocr_result.analyzeResult.readResults) = 0
  THEN Some(Exc("IndexError", "list index out of range"))
  ELSE IF "lines" \notin DOMAIN ocr_result.analyzeResult.readResults[1]
  THEN Some(Exc("KeyError", "lines"))
  ELSE IF \E i \in DOMAIN ocr_result.analyzeResult.readResults[1].lines :
            "text" \notin DOMAIN ocr_result.analyzeResult.readResults[1].lines[i]
  THEN Some(Exc("KeyError", "text"))
  ELSE None

\* variant: lines without text are skipped (line.get("text") in place of
\* line["text"])
extract_text_skipping_lines(ocr_result) ==
  LET e == LookupError(ocr_result)
      lines == ocr_result.analyzeResult.readResults[1].lines
      HasText(line) == "text" \in DOMAIN line
      texts == SelectSeq(lines, HasText)
  IN IF e = None \/ e = Some(Exc("KeyError", "text"))
     THEN [raised |-> None, value |-> Join([i \in DOMAIN texts |-> texts[i].text])]
     ELSE IF Catches("KeyError", e[1])
          THEN [raised |-> Some(ExtractionFailed), value |-> <<>>]
          ELSE [raised |-> e, value |-> <<>>]

\* extract_text: [raised, value]; a KeyError is replaced by ExtractionFailed,
\* any other exception leaves the function as it is
extract_text(ocr_result) ==
  LET e == LookupError(ocr_result)
      lines == ocr_result.analyzeResult.readResults[1].lines
  IN IF e = None
     THEN [raised |-> None, value |-> Join([i \in DOMAIN lines |-> lines[i].text])]
     ELSE IF Catches("KeyError", e[1])
          THEN [raised |-> Some(ExtractionFailed), value |-> <<>>]
          ELSE [raised |-> e, value |-> <<>>]

(***************************************************************************)
(* Inputs: file names, recognized lines, backend replies.                  *)
(***************************************************************************)
\* the longest list of recognized lines the backend is taken to return
MaxLines == 2

CP_F_X9 == <<"C","P","-","F","-","X","9">>
SN1234 == <<"S","N","1","2","3","4">>

\* myblob.name
FileNames ==
  { <<"C","P","-","F","-","R","A","S","S","-","C","1","1","R","1","4","_","M","a","n","u","a","l",".","p","d","f">>,
    <<"C","P","-","F","-","X","9","_","M","a","n","u","a","l",".","p","d","f">>,
    <<"C","P","-","F","-","X","9",".","p","d","f">>,
    <<"r","o","b","o","t","_","M","A","I","N","T","E","N","A","N","C","E",".","p","d","f">>,
    <<"s","c","a","n",".","p","d","f">> }

\* the texts a recognized line may hold
LineVocabulary == {FESTO, ABB, Robot, Manual, CP_F_X9, SN1234}

EndToEndLines == <<FESTO, Robot, Manual, CP_F_X9>>

RecognizedLines ==
  UNION {[1..n -> LineVocabulary] : n \in 0..MaxLines} \cup {EndToEndLines}

\* payloads with status "succeeded" that lack the expected structure
MalformedPayloads ==
  { [status |-> "succeeded"],
    [status |-> "succeeded", analyzeResult |-> [version |-> "3.2.0"]],
    [status |-> "succeeded", analyzeResult |-> [readResults |-> <<>>]],
    [status |-> "succeeded", analyzeResult |-> [readResults |-> << [page |-> 1] >>]],
    [status |-> "succeeded",
     analyzeResult |-> [readResults |-> << [lines |-> << [text |-> FESTO], [words |-> <<>>] >>] >>]] }

WellFormedPayloads == {Succeeded(lines) : lines \in RecognizedLines}

SucceededPayloads == WellFormedPayloads \cup MalformedPayloads

\* poll bodies that carry no terminal status
PendingPayloads ==
  { [status |-> "running"], [status |-> "notStarted"], [createdDateTime |-> "t0"] }

FailedPayload == [status |-> "failed"]

JobLocators == {"https://ocr/operations/a", "https://ocr/operations/b"}

\* a reply of the backend: the request raises, or a response comes back
Response(status_code, headers, json) ==
  [raises |-> None, status_code |-> status_code, headers |-> headers, json |-> json]

Failure(e) == [raises |-> Some(e), status_code |-> 0, headers |-> <<>>, json |-> None]

Unreachable == Failure(Exc("ConnectionError", "connection refused"))

\* replies to requests.post(.../read/analyze)
SubmitReplies ==
  {Response(202, ("Operation-Location" :> loc), None) : loc \in JobLocators}
  \cup { Response(202, ("Operation-Location" :> ""), None),
         Response(202, <<>>, None),
         Response(200, ("Operation-Location" :> "https://ocr/operations/a"), None),
         Response(401, <<>>, None),
         Response(500, <<>>, None),
         Unreachable }

\* replies to requests.get(operation_location)
PollReplies ==
  {Response(200, <<>>, Some(p)) : p \in SucceededPayloads \cup PendingPayloads \cup {FailedPayload}}
  \cup {Response(code, <<>>, Some(p)) :
          code \in {404, 500}, p \in {Succeeded(EndToEndLines), FailedPayload, [status |-> "running"]}}
  \cup { Response(200, <<>>, None), Response(503, <<>>, None), Unreachable }

\* behaviours of the database during save_to_db
DbBehaviours == {"ok", "connect_error", "execute_error", "commit_error"}

(***************************************************************************)
(* Decisions of process_ocr.                                               *)
(***************************************************************************)
max_poll_attempts == 10

\* variant: the interval is given in milliseconds
poll_interval_in_ms == 3 * 1000

\* time.sleep(3)
poll_interval == 3

\* dict.get(key): the value, or None
Get(d, key) == IF key \in DOMAIN d THEN Some(d[key]) ELSE None

\* variant: only a missing header counts as no locator
FalsyNoneOnly(v) == v = None

\* "not operation_location": None and the empty string are false
Falsy(v) == v = None \/ v = Some("")

\* variant: the status code of the submit response is not looked at
SubmitOutcomeAnyStatus(reply) ==
  IF reply.raises # None
  THEN [raised |-> reply.raises, location |-> None]
  ELSE IF Falsy(Get(reply.headers, "Operation-Location"))
  THEN [raised |-> Some(LocatorMissing), location |-> None]
  ELSE [raised |-> None, location |-> Get(reply.headers, "Operation-Location")]

\* lines 52-61: [raised, location]
SubmitOutcome(reply) ==
  IF reply.raises # None
  THEN [raised |-> reply.raises, location |-> None]
  ELSE IF reply.status_code # 202
  THEN [raised |-> Some(SubmissionFailed), location |-> None]
  ELSE IF Falsy(Get(reply.headers, "Operation-Location"))
  THEN [raised |-> Some(LocatorMissing), location |-> None]
  ELSE [raised |-> None, location |-> Get(reply.headers, "Operation-Location")]

\* variant: the loop admits one attempt more
LoopConditionInclusive(attempts) == attempts <= max_poll_attempts

\* line 68: while poll_attempts < max_poll_attempts
LoopCondition(attempts) == attempts < max_poll_attempts

\* variant: a succeeded job does not end the loop
PollOutcomeIgnoringSucceeded(reply) ==
  IF reply.raises # None
  THEN [do |-> "raise", raised |-> reply.raises]
  ELSE IF reply.status_code = 200 /\ reply.json = None
  THEN [do |-> "raise", raised |-> Some(Exc("JSONDecodeError", "Expecting value"))]
  ELSE IF reply.status_code = 200 /\ Get(reply.json[1], "status") = Some("failed")
  THEN [do |-> "raise", raised |-> Some(ProcessingFailed)]
  ELSE [do |-> "retry", raised |-> None]

\* variant: a failed job does not end the loop
PollOutcomeIgnoringFailed(reply) ==
  IF reply.raises # None
  THEN [do |-> "raise", raised |-> reply.raises]
  ELSE IF reply.status_code = 200 /\ reply.json = None
  THEN [do |-> "raise", raised |-> Some(Exc("JSONDecodeError", "Expecting value"))]
  ELSE IF reply.status_code = 200 /\ Get(reply.json[1], "status") = Some("succeeded")
  THEN [do |-> "return", raised |-> None]
  ELSE [do |-> "retry", raised |-> None]

\* lines 70-81: what one poll reply makes the loop do
PollOutcome(reply) ==
  IF reply.raises # None
  THEN [do |-> "raise", raised |-> reply.raises]
  ELSE IF reply.status_code = 200
  THEN IF reply.json = None
       THEN [do |-> "raise", raised |-> Some(Exc("JSONDecodeError", "Expecting value"))]
       ELSE IF Get(reply.json[1], "status") = Some("succeeded")
       THEN [do |-> "return", raised |-> None]
       ELSE IF Get(reply.json[1], "status") = Some("failed")
       THEN [do |-> "raise", raised |-> Some(ProcessingFailed)]
       ELSE [do |-> "retry", raised |-> None]
  ELSE [do |-> "retry", raised |-> None]

\* what the backend's reply says, whatever the client makes of it
ReplyKind(reply) ==
  IF reply.raises # None \/ (reply.status_code = 200 /\ reply.json = None) THEN "error"
  ELSE IF reply.status_code = 200 /\ "status" \in DOMAIN reply.json[1]
          /\ reply.json[1].status \in {"succeeded", "failed"}
  THEN reply.json[1].status
  ELSE "pending"

\* variant: the handler of blob_trigger names the look-up errors only
BlobTriggerCatchesLookupError(e) == Catches("LookupError", e)

\* the except clauses of blob_trigger (line 40) and save_to_db (line 196)
BlobTriggerCatches(e) == Catches("Exception", e)

SaveToDbCatches(e) == Catches("Exception", e)

\* the database calls save_to_db gets to make, and the error it meets
DbCalls(behaviour) ==
  CASE behaviour = "connect_error" -> <<"connect">>
    [] behaviour = "execute_error" -> <<"connect", "insert">>
    [] OTHER -> <<"connect", "insert", "commit">>

DbError(behaviour) ==
  IF behaviour = "ok" THEN None ELSE Some(Exc("PyodbcError", behaviour))

\* the row of the INSERT statement, lines 182-186
Row(blob_name, text, fields) ==
  [FileName      |-> blob_name,
   ExtractedText |-> text,
   AssetType     |-> fields["AssetType"],
   Manufacturer  |-> fields["Manufacturer"],
   ModelNumber   |-> fields["ModelNumber"],
   SerialNumber  |-> fields["SerialNumber"],
   DocumentType  |-> fields["DocumentType"]]

(***************************************************************************)
(* State of one ingestion.                                                 *)
(***************************************************************************)
VARIABLES
  name,                       \* myblob.name
  pc,                         \* the statement blob_trigger is at
  calls,                      \* the operations on the collaborators so far
  slept,                      \* total time spent in time.sleep
  polled,                     \* the URLs polled
  response,                   \* the reply to the submit request
  operation_location,
  poll_attempts,
  poll_response,              \* the latest reply to a poll
  poll_log,                   \* ReplyKind of every poll reply, in order
  ocr_result,
  extracted_text,
  parsed_data_from_text,
  parsed_data_from_filename,
  parsed_data,
  table,                      \* the committed rows of AssetData
  exc,                        \* the exception raised inside the try block
  db_exc                      \* the exception save_to_db logged

\* State of two ingestions running side by side: the locals of each
\* invocation of blob_trigger, the jobs the recognition backend holds and the
\* table both invocations insert into.
VARIABLES
  ingestion,                  \* invocation -> its locals
  jobs,                       \* the jobs submitted, in order: [locator, content]
  asset_data                  \* the committed rows of AssetData

concVars == <<ingestion, jobs, asset_data>>

\* no concurrent invocation is under way
NoInvocations ==
  /\ ingestion = <<>>
  /\ jobs = <<>>
  /\ asset_data = <<>>

vars ==
  <<name, pc, calls, slept, polled, response, operation_location, poll_attempts, poll_response,
    poll_log, ocr_result, extracted_text, parsed_data_from_text,
    parsed_data_from_filename, parsed_data, table, exc, db_exc, ingestion, jobs, asset_data>>

ocrVars == <<slept, polled, response, operation_location, poll_attempts, poll_response, poll_log, ocr_result>>

fieldVars == <<extracted_text, parsed_data_from_text, parsed_data_from_filename, parsed_data>>

Init ==
  /\ name \in FileNames
  /\ pc = "read"
  /\ calls = <<>>
  /\ slept = 0
  /\ polled = {}
  /\ response = None
  /\ operation_location = None
  /\ poll_attempts = 0
  /\ poll_response = None
  /\ poll_log = <<>>
  /\ ocr_result = None
  /\ extracted_text = None
  /\ parsed_data_from_text = None
  /\ parsed_data_from_filename = None
  /\ parsed_data = None
  /\ table = <<>>
  /\ exc = None
  /\ db_exc = None
  /\ NoInvocations

\* an exception leaves the try block for the handler of line 40
Raise(e) ==
  /\ exc' = e
  /\ pc' = "except"

\* line 23: myblob.read()
ReadBlob ==
  /\ pc = "read"
  /\ calls' = Append(calls, "read")
  /\ \E ok \in BOOLEAN :
       IF ok THEN pc' = "submit" /\ exc' = exc
       ELSE Raise(Some(Exc("OSError", "read failed")))
  /\ UNCHANGED <<concVars, name, ocrVars, fieldVars, table, db_exc>>

\* lines 52-66: submit the content, check the acknowledgement
Submit ==
  /\ pc = "submit"
  /\ calls' = Append(calls, "submit")
  /\ \E reply \in SubmitReplies :
       LET out == SubmitOutcome(reply)
       IN /\ response' = Some(reply)
          /\ IF out.raised # None
             THEN /\ Raise(out.raised)
                  /\ UNCHANGED <<operation_location, poll_attempts>>
             ELSE /\ operation_location' = out.location
                  /\ poll_attempts' = 0
                  /\ pc' = "poll"
                  /\ exc' = exc
  /\ UNCHANGED <<concVars, name, slept, polled, poll_response, poll_log, ocr_result,
                 fieldVars, table, db_exc>>

\* lines 68-84: one iteration of the poll loop
Poll ==
  /\ pc = "poll"
  /\ LoopCondition(poll_attempts)
  /\ slept' = slept + poll_interval
  /\ calls' = calls \o <<"sleep", "poll">>
  /\ polled' = polled \cup {operation_location[1]}
  /\ response' = response
  /\ \E reply \in PollReplies :
       LET out == PollOutcome(reply)
       IN /\ poll_response' = Some(reply)
          /\ poll_log' = Append(poll_log, ReplyKind(reply))
          /\ CASE out.do = "return" ->
                    /\ ocr_result' = reply.json
                    /\ pc' = "extract_text"
                    /\ UNCHANGED <<poll_attempts, exc>>
               [] out.do = "raise" ->
                    /\ Raise(out.raised)
                    /\ UNCHANGED <<poll_attempts, ocr_result>>
               [] OTHER ->
                    /\ poll_attempts' = poll_attempts + 1
                    /\ UNCHANGED <<pc, ocr_result, exc>>
  /\ UNCHANGED <<concVars, name, operation_location, fieldVars, table, db_exc>>

\* lines 68 and 86: the budget is used up
PollTimeout ==
  /\ pc = "poll"
  /\ ~LoopCondition(poll_attempts)
  /\ Raise(Some(TimedOut))
  /\ UNCHANGED <<concVars, name, calls, ocrVars, fieldVars, table, db_exc>>

\* line 27
ExtractText ==
  /\ pc = "extract_text"
  /\ LET r == extract_text(ocr_result[1])
     IN IF r.raised # None
        THEN Raise(r.raised) /\ UNCHANGED extracted_text
        ELSE /\ extracted_text' = Some(r.value)
             /\ pc' = "parse"
             /\ exc' = exc
  /\ UNCHANGED <<concVars, name, calls, ocrVars, parsed_data_from_text,
                 parsed_data_from_filename, parsed_data, table, db_exc>>

\* lines 30-36: both parsers, then the merge
ParseFields ==
  /\ pc = "parse"
  /\ LET from_text == parse_extracted_text(extracted_text[1])
         from_filename == extract_from_filename(name)
     IN /\ parsed_data_from_text' = Some(from_text)
        /\ parsed_data_from_filename' = Some(from_filename)
        /\ parsed_data' = Some(MergeDicts(from_text, from_filename))
  /\ pc' = "save"
  /\ UNCHANGED <<concVars, name, calls, ocrVars, extracted_text, table, exc, db_exc>>

\* line 39 and save_to_db: connect, insert, commit; the row is in the table
\* once the commit has succeeded
SaveToDb ==
  /\ pc = "save"
  /\ \E behaviour \in DbBehaviours :
       LET e == DbError(behaviour)
       IN /\ calls' = calls \o DbCalls(behaviour)
          /\ table' = IF e = None
                      THEN Append(table, Row(name, extracted_text[1], parsed_data[1]))
                      ELSE table
          /\ IF e = None \/ SaveToDbCatches(e[1])
             THEN db_exc' = e /\ pc' = "returned" /\ exc' = exc
             ELSE Raise(e) /\ db_exc' = db_exc
  /\ UNCHANGED <<concVars, name, ocrVars, fieldVars>>

\* variant: the handler starts the ingestion again
HandleExceptionRetrying ==
  /\ pc = "except"
  /\ pc' = "submit"
  /\ UNCHANGED <<concVars, name, calls, ocrVars, fieldVars, table, exc, db_exc>>

\* lines 40-41: the handler of blob_trigger
HandleException ==
  /\ pc = "except"
  /\ pc' = IF BlobTriggerCatches(exc[1]) THEN "returned" ELSE "propagated"
  /\ UNCHANGED <<concVars, name, calls, ocrVars, fieldVars, table, exc, db_exc>>

Next ==
  \/ ReadBlob
  \/ Submit
  \/ Poll
  \/ PollTimeout
  \/ ExtractText
  \/ ParseFields
  \/ SaveToDb
  \/ HandleException

Spec == Init /\ [][Next]_vars

(***************************************************************************)
(* Properties.                                                             *)
(***************************************************************************)
\* how often an operation on a collaborator has been performed
Count(op) == Cardinality({i \in DOMAIN calls : calls[i] = op})

\* the first k-1 polls brought no terminal status and the k-th brought kind
FirstTerminalAt(k, kind) ==
  /\ Len(poll_log) >= k
  /\ \A j \in 1..(k - 1) : poll_log[j] = "pending"
  /\ poll_log[k] = kind

\* the failures process_ocr raises by itself
RecognitionFailures == {SubmissionFailed, LocatorMissing, ProcessingFailed, TimedOut}

\* C1: a job that reports succeeded on poll k (k in 1..10, nothing terminal
\* before) makes process_ocr return that poll's payload after exactly k poll
\* requests, and no run issues more than 10 poll requests.
SucceededOnPollKReturnsAfterKPolls ==
  /\ Count("poll") <= 10
  /\ \A k \in 1..10 :
       FirstTerminalAt(k, "succeeded") =>
         /\ Count("poll") = k
         /\ Len(poll_log) = k
         /\ poll_response[1].status_code = 200
         /\ poll_response[1].json[1].status = "succeeded"
         /\ ocr_result = poll_response[1].json
         /\ pc # "poll"
         /\ (exc # None => exc[1] \notin RecognitionFailures)

SucceededOnLastAttempt ==
  /\ FirstTerminalAt(10, "succeeded")
  /\ ocr_result # None
  /\ Count("poll") = 10

\* C2: a job that reports failed on poll k (nothing terminal before) makes
\* process_ocr raise the processing failure right after that poll: no further
\* poll request, no result, whatever budget remains.
FailedOnPollKRaisesAtOnce ==
  \A k \in 1..10 :
    FirstTerminalAt(k, "failed") =>
      /\ Count("poll") = k
      /\ Len(poll_log) = k
      /\ exc = Some(ProcessingFailed)
      /\ ocr_result = None
      /\ pc \in {"except", "returned"}
      /\ poll_attempts = k - 1

FailedWithBudgetLeft ==
  /\ FirstTerminalAt(4, "failed")
  /\ exc = Some(ProcessingFailed)
  /\ pc = "returned"
  /\ poll_attempts < 10

\* the submit response carries no job locator
NoLocator(reply) ==
  \/ "Operation-Location" \notin DOMAIN reply.headers
  \/ reply.headers["Operation-Location"] = ""

\* C3: a submit response that is not "accepted" (status code other than 202)
\* makes process_ocr fail with the submission error, an accepted one without a
\* job locator (header missing or empty) with the protocol error; in both
\* cases no poll request is issued and no sleep is taken.
RejectedSubmitNeverPolls ==
  (response # None /\ response[1].raises = None) =>
    /\ response[1].status_code # 202 =>
         /\ exc = Some(SubmissionFailed)
         /\ Count("poll") = 0 /\ Count("sleep") = 0 /\ slept = 0 /\ polled = {}
         /\ pc \in {"except", "returned"}
         /\ ocr_result = None
    /\ (response[1].status_code = 202 /\ NoLocator(response[1])) =>
         /\ exc = Some(LocatorMissing)
         /\ Count("poll") = 0 /\ Count("sleep") = 0 /\ slept = 0 /\ polled = {}
         /\ pc \in {"except", "returned"}
         /\ ocr_result = None

AcceptedWithEmptyLocator ==
  /\ response # None
  /\ response[1].status_code = 202
  /\ "Operation-Location" \in DOMAIN response[1].headers
  /\ response[1].headers["Operation-Location"] = ""
  /\ exc = Some(LocatorMissing)
  /\ pc = "returned"

\* C4: when every poll response is non-200 or a 200 without terminal status,
\* each response uses up exactly one attempt and process_ocr ends by raising
\* the timeout failure after exactly 10 poll requests; in every run, whatever
\* the backend answers, the loop stops within 10 polls.
PendingPollsEndInTimeout ==
  /\ Len(poll_log) <= 10
  /\ poll_attempts <= 10
  /\ (pc = "poll" /\ poll_attempts = 10) => ENABLED PollTimeout /\ ~ENABLED Poll
  /\ (operation_location # None /\ \A j \in DOMAIN poll_log : poll_log[j] = "pending") =>
       /\ poll_attempts = Len(poll_log)
       /\ Count("poll") = Len(poll_log)
       /\ ocr_result = None
       /\ pc # "poll" => (exc = Some(TimedOut) /\ Count("poll") = 10)
       /\ exc = Some(TimedOut) => Count("poll") = 10

TimedOutAfterTenPolls ==
  /\ Len(poll_log) = 10
  /\ \A j \in DOMAIN poll_log : poll_log[j] = "pending"
  /\ exc = Some(TimedOut)
  /\ pc = "returned"

\* C5 (as claimed): after the merge, AssetType and DocumentType hold the
\* text-derived value wherever the text parser set one, and the
\* filename-derived value only where the text parser left the key unset.
TextDerivedValuesWin ==
  parsed_data # None =>
    \A key \in {"AssetType", "DocumentType"} :
      parsed_data[1][key] =
        IF parsed_data_from_text[1][key] # None
        THEN parsed_data_from_text[1][key]
        ELSE parsed_data_from_filename[1][key]

\* C6 (as claimed): in every record handed to persistence, ModelNumber and
\* AssetType are never the same set value.
ModelNumberDiffersFromAssetType ==
  /\ parsed_data # None =>
       ~(parsed_data[1].ModelNumber # None
         /\ parsed_data[1].ModelNumber = parsed_data[1].AssetType)
  /\ \A i \in DOMAIN table :
       ~(table[i].ModelNumber # None /\ table[i].ModelNumber = table[i].AssetType)

\* C7: whatever the trigger input, the recognition backend and the database
\* do, blob_trigger returns normally: no failure reaches its caller; a raised
\* failure is in the hands of the handler or blob_trigger has returned.
BlobTriggerNeverPropagates ==
  /\ pc # "propagated"
  /\ exc # None => pc \in {"except", "returned"}

MalformedPayloadSwallowed ==
  /\ pc = "returned"
  /\ exc # None
  /\ exc[1].type = "IndexError"

\* recognition ended with a payload of the expected structure
WellFormedSuccess ==
  /\ ocr_result # None
  /\ ocr_result[1] \in WellFormedPayloads

\* C8: one ingestion performs at most one insert; exactly one record is
\* written when recognition succeeds with a well-formed payload and insert and
\* commit succeed; none is written when recognition ends in submission
\* failure, missing locator, failed job or timeout; there is no second submit.
AtMostOneInsertNoRetry ==
  /\ Len(table) <= 1
  /\ Count("insert") <= 1
  /\ Count("commit") <= 1
  /\ Count("submit") <= 1
  /\ (pc = "returned" /\ WellFormedSuccess /\ exc = None /\ db_exc = None) =>
       /\ Len(table) = 1
       /\ Count("insert") = 1
       /\ table[1].FileName = name
  /\ (exc # None /\ exc[1] \in RecognitionFailures) =>
       /\ table = <<>>
       /\ Count("insert") = 0
       /\ Count("connect") = 0

OneRecordWritten ==
  /\ pc = "returned"
  /\ WellFormedSuccess
  /\ Len(table) = 1
  /\ Count("commit") = 1

\* C9 (as claimed): a backend that accepts the submit and succeeds on the 3rd
\* poll with lines FESTO, Robot, Manual, CP-F-X9 yields, for any file name,
\* exactly one record with ExtractedText "FESTO\nRobot\nManual\nCP-F-X9" and
\* fields Manufacturer FESTO, AssetType Robot, DocumentType Manual,
\* ModelNumber CP-F-X9.
EndToEndRecord ==
  ( /\ pc = "returned"
    /\ FirstTerminalAt(3, "succeeded")
    /\ ocr_result = Some(Succeeded(EndToEndLines))
    /\ exc = None
    /\ db_exc = None ) =>
      /\ Len(table) = 1
      /\ table[1].ExtractedText = <<"F","E","S","T","O","\n","R","o","b","o","t","\n","M","a","n","u","a","l","\n","C","P","-","F","-","X","9">>
      /\ table[1].Manufacturer = Some(FESTO)
      /\ table[1].AssetType = Some(Robot)
      /\ table[1].DocumentType = Some(Manual)
      /\ table[1].ModelNumber = Some(CP_F_X9)

\* C10 (as claimed): for "CP-F-RASS-C11R14_Manual.pdf" extract_from_filename
\* returns AssetType "CP-F-RASS-C11R14" (the whole asset token, without the
\* "_Manual" part) and DocumentType "Manual"; for a file name with no
\* recognizable pattern it returns both fields unset.
FilenameYieldsWholeAssetToken ==
  parsed_data_from_filename # None =>
    /\ name = <<"C","P","-","F","-","R","A","S","S","-","C","1","1","R","1","4","_","M","a","n","u","a","l",".","p","d","f">> =>
         /\ parsed_data_from_filename[1].AssetType = Some(<<"C","P","-","F","-","R","A","S","S","-","C","1","1","R","1","4">>)
         /\ parsed_data_from_filename[1].DocumentType = Some(Manual)
    /\ name = <<"s","c","a","n",".","p","d","f">> =>
         /\ parsed_data_from_filename[1].AssetType = None
         /\ parsed_data_from_filename[1].DocumentType = None

(***************************************************************************)
(* The field extractors on a wider range of texts: the ingestion is taken  *)
(* up where the first poll has returned a well-formed result.              *)
(***************************************************************************)
\* the longest list of lines of the texts given to the parsers
MaxTextLines == 2

festo == <<"f","e","s","t","o">>
SIEMENS == <<"S","I","E","M","E","N","S">>
ABBOTT == <<"A","B","B","O","T","T">>
Pump == <<"P","u","m","p">>
ModelNumberLabel == <<"M","o","d","e","l"," ","N","u","m","b","e","r",":"," ","7">>

TextVocabulary ==
  {FESTO, festo, SIEMENS, ABB, ABBOTT, Robot, Motor, Manual, MaintenanceManual,
   CircuitDiagrams, CP_F_X9, SN1234, Pump, ModelNumberLabel}

TextLines == UNION {[1..n -> TextVocabulary] : n \in 0..MaxTextLines}

TextFileNames ==
  { <<"C","P","-","F","-","X","9","_","M","a","n","u","a","l",".","p","d","f">>,
    <<"s","c","a","n",".","p","d","f">> }

TextInit ==
  /\ name \in TextFileNames
  /\ pc = "extract_text"
  /\ calls = <<"read", "submit", "sleep", "poll">>
  /\ slept = poll_interval
  /\ polled = {"https://ocr/operations/a"}
  /\ response = Some(Response(202, ("Operation-Location" :> "https://ocr/operations/a"), None))
  /\ operation_location = Some("https://ocr/operations/a")
  /\ poll_attempts = 0
  /\ \E lines \in TextLines :
       /\ poll_response = Some(Response(200, <<>>, Some(Succeeded(lines))))
       /\ ocr_result = Some(Succeeded(lines))
  /\ poll_log = <<"succeeded">>
  /\ extracted_text = None
  /\ parsed_data_from_text = None
  /\ parsed_data_from_filename = None
  /\ parsed_data = None
  /\ table = <<>>
  /\ exc = None
  /\ db_exc = None
  /\ NoInvocations

TextNext ==
  \/ ExtractText
  \/ ParseFields
  \/ SaveToDb

TextSpec == TextInit /\ [][TextNext]_vars

\* lit occurs in text, in any letter case, also inside a longer word
ContainsIgnoringCase(text, lit) == \E i \in 1..Len(text) : LiteralAt(text, i, lit, TRUE)

\* the entries of a vocabulary that occur in the text as whole words, in any
\* letter case
WholeWordEntries(patterns, text) == {p \in Range(patterns) : SearchWord(text, p)}

\* C11 (as claimed): every vocabulary match of parse_extracted_text, the
\* manufacturer match included, is case-insensitive and whole-word: the
\* field is the first entry of its list that occurs in the text as a whole
\* word in any letter case ("festo" yields FESTO, "ABBOTT" yields nothing).
VocabularyMatchesWholeWordAnyCase ==
  parsed_data_from_text # None =>
    /\ parsed_data_from_text[1].Manufacturer =
         FirstMatching(manufacturer_patterns,
                       WholeWordEntries(manufacturer_patterns, extracted_text[1]))
    /\ parsed_data_from_text[1].DocumentType =
         FirstMatching(document_type_patterns,
                       WholeWordEntries(document_type_patterns, extracted_text[1]))
    /\ parsed_data_from_text[1].AssetType =
         FirstMatching(asset_type_patterns,
                       WholeWordEntries(asset_type_patterns, extracted_text[1]))

\* field is the entry of patterns that comes first in list order among the
\* entries for which Matches holds, or unset when there is none
IsFirstInListOrder(field, patterns, matching) ==
  IF field = None
  THEN \A k \in DOMAIN patterns : patterns[k] \notin matching
  ELSE \E k \in DOMAIN patterns :
         /\ field = Some(patterns[k])
         /\ patterns[k] \in matching
         /\ \A j \in 1..(k - 1) : patterns[j] \notin matching

\* C12: for each of the three vocabularies, when several entries match the
\* text, parse_extracted_text selects the entry that comes first in the fixed
\* list order, wherever the entries occur in the text: a text with Motor and
\* Robot yields AssetType Robot, one with ABB and FESTO yields Manufacturer
\* FESTO.
FirstListEntryWins ==
  parsed_data_from_text # None =>
    LET text == extracted_text[1]
        fields == parsed_data_from_text[1]
    IN /\ IsFirstInListOrder(fields.Manufacturer, manufacturer_patterns,
            {m \in Range(manufacturer_patterns) : ManufacturerMatches(text, m)})
       /\ IsFirstInListOrder(fields.DocumentType, document_type_patterns,
            {d \in Range(document_type_patterns) : DocumentTypeMatches(text, d)})
       /\ IsFirstInListOrder(fields.AssetType, asset_type_patterns,
            {a \in Range(asset_type_patterns) : AssetTypeMatches(text, a)})
       /\ (SearchWord(text, Motor) /\ SearchWord(text, Robot)) =>
            fields.AssetType = Some(Robot)
       /\ (Contains(text, ABB) /\ Contains(text, FESTO)) =>
            fields.Manufacturer = Some(FESTO)

MotorBeforeRobotYieldsRobot ==
  /\ extracted_text = Some(Join(<<Motor, Robot>>))
  /\ parsed_data_from_text # None
  /\ parsed_data_from_text[1].AssetType = Some(Robot)

\* the label markers of the labeled-line strategy
LabelMarkers ==
  { <<"A","s","s","e","t"," ","T","y","p","e",":"," ">>,
    <<"M","a","n","u","f","a","c","t","u","r","e","r",":"," ">>,
    <<"M","o","d","e","l"," ","N","u","m","b","e","r",":"," ">>,
    <<"S","e","r","i","a","l"," ","N","u","m","b","e","r",":"," ">>,
    <<"D","o","c","u","m","e","n","t"," ","T","y","p","e",":"," ">> }

\* the text holds no label marker and no entry of the three vocabularies,
\* in whatever letter case and also not inside a longer word
NoLabelNoVocabulary(text) ==
  /\ \A marker \in LabelMarkers : ~Contains(text, marker)
  /\ \A p \in Range(manufacturer_patterns) \cup Range(document_type_patterns)
                \cup Range(asset_type_patterns) : ~ContainsIgnoringCase(text, p)

\* the text holds a token CP-F-<word>
HasModelNumberToken(text) ==
  \E i \in 1..Len(text) :
    /\ WordBoundary(text, i)
    /\ LiteralAt(text, i, CP_F_, FALSE)
    /\ i + Len(CP_F_) <= Len(text)
    /\ IsWordChar(text[i + Len(CP_F_)])

\* the text holds a token S-Nr.<digits> or SN<digits>
HasSerialNumberToken(text) ==
  \E i \in 1..Len(text) : \E prefix \in {S_Nr_, SN} :
    /\ WordBoundary(text, i)
    /\ LiteralAt(text, i, prefix, FALSE)
    /\ \E e \in (i + Len(prefix))..Len(text) :
         /\ \A j \in (i + Len(prefix))..e : IsDigit(text[j])
         /\ WordBoundary(text, e + 1)

AllFieldsUnset(fields) ==
  /\ DOMAIN fields = {"AssetType", "Manufacturer", "ModelNumber", "SerialNumber", "DocumentType"}
  /\ \A key \in DOMAIN fields : fields[key] = None

\* C13 (as claimed): for every text with no label marker and no entry of the
\* manufacturer, document-type or asset-type vocabularies,
\* parse_extracted_text returns all five fields unset and never raises.
NoVocabularyYieldsAllUnset ==
  (extracted_text # None /\ NoLabelNoVocabulary(extracted_text[1]) /\ pc # "parse") =>
    /\ parsed_data_from_text # None
    /\ exc = None
    /\ AllFieldsUnset(parsed_data_from_text[1])

\* C13 (amended): for every text with no label marker, no entry of the three
\* vocabularies and no token of the shape CP-F-<word>, S-Nr.<digits> or
\* SN<digits>, parse_extracted_text returns all five fields unset and never
\* raises.
NoVocabularyNoTokenYieldsAllUnset ==
  ( /\ extracted_text # None
    /\ NoLabelNoVocabulary(extracted_text[1])
    /\ ~HasModelNumberToken(extracted_text[1])
    /\ ~HasSerialNumberToken(extracted_text[1])
    /\ pc # "parse" ) =>
      /\ parsed_data_from_text # None
      /\ exc = None
      /\ AllFieldsUnset(parsed_data_from_text[1])

UnknownWordsYieldAllUnset ==
  /\ extracted_text = Some(Join(<<Pump, Pump>>))
  /\ parsed_data_from_text # None
  /\ AllFieldsUnset(parsed_data_from_text[1])

\* C18: for every text the DocumentType of parse_extracted_text is unset,
\* Manual or Circuit diagrams and never Maintenance Manual: a text that
\* matches the entry Maintenance Manual also matches the earlier entry
\* Manual, which wins by list order.
MaintenanceManualNeverSelected ==
  parsed_data_from_text # None =>
    /\ parsed_data_from_text[1].DocumentType \in {None, Some(Manual), Some(CircuitDiagrams)}
    /\ parsed_data_from_text[1].DocumentType # Some(MaintenanceManual)
    /\ SearchWord(extracted_text[1], MaintenanceManual) =>
         /\ SearchWord(extracted_text[1], Manual)
         /\ parsed_data_from_text[1].DocumentType = Some(Manual)

MaintenanceManualTextYieldsManual ==
  /\ extracted_text = Some(MaintenanceManual)
  /\ parsed_data_from_text # None
  /\ parsed_data_from_text[1].DocumentType = Some(Manual)

DbOperations == {"connect", "insert", "commit"}

\* C15: within one ingestion the operations on the backends come in a fixed
\* order: one submit, then polls, each right after one sleep of 3 time units
\* and addressed to the locator that submit returned, then parsing, then at
\* most one persist; no poll precedes the acceptance of the submit and no
\* poll or submit follows the persist.
OperationsInFixedOrder ==
  /\ Count("submit") <= 1
  /\ Count("insert") <= 1
  /\ Count("sleep") = Count("poll")
  /\ slept = 3 * Count("sleep")
  /\ \A i \in DOMAIN calls :
       /\ calls[i] = "poll" =>
            /\ i > 1 /\ calls[i - 1] = "sleep"
            /\ \E j \in 1..(i - 1) : calls[j] = "submit"
       /\ calls[i] = "sleep" => (i < Len(calls) /\ calls[i + 1] = "poll")
       /\ calls[i] \in {"submit", "sleep", "poll"} =>
            \A j \in 1..(i - 1) : calls[j] \notin DbOperations
  /\ IF Count("poll") > 0
     THEN /\ response # None
          /\ response[1].raises = None
          /\ response[1].status_code = 202
          /\ polled = {response[1].headers["Operation-Location"]}
     ELSE polled = {}
  /\ pc \in {"read", "submit", "poll", "extract_text", "parse"} =>
       (parsed_data = None /\ \A i \in DOMAIN calls : calls[i] \notin DbOperations)
  /\ (\E i \in DOMAIN calls : calls[i] \in DbOperations) =>
       (parsed_data # None /\ parsed_data_from_text # None /\ pc = "returned")

PersistedAfterThreePolls ==
  /\ pc = "returned"
  /\ calls = <<"read", "submit", "sleep", "poll", "sleep", "poll", "sleep", "poll",
               "connect", "insert", "commit">>
  /\ polled = {"https://ocr/operations/b"}
  /\ Len(table) = 1

\* C16: the time process_ocr spends sleeping is 3 time units for every poll
\* request issued and so never more than 30; a job that succeeds or fails on
\* poll k has slept exactly 3*k.
SleepIsThreePerPoll ==
  /\ slept = 3 * Count("poll")
  /\ slept <= 30
  /\ \A k \in 1..10 :
       (FirstTerminalAt(k, "succeeded") \/ FirstTerminalAt(k, "failed")) => slept = 3 * k

SleptThirtyBeforeFailure ==
  /\ FirstTerminalAt(10, "failed")
  /\ slept = 30
  /\ pc = "returned"

\* C17: a succeeded poll whose payload lacks the expected structure (no
\* analyzeResult, no readResults, an empty readResults list, no lines, a line
\* without text) ends the ingestion in a failure raised by extract_text and
\* caught by the handler of blob_trigger: nothing is persisted and the
\* parsers are not run, not even on the text of the well-formed lines.
MalformedPayloadEndsIngestion ==
  (ocr_result # None /\ ocr_result[1] \in MalformedPayloads /\ pc # "extract_text") =>
    /\ pc \in {"except", "returned"}
    /\ exc # None
    /\ exc[1].type \in {"Exception", "IndexError"}
    /\ exc[1] \notin RecognitionFailures
    /\ extracted_text = None
    /\ parsed_data_from_text = None
    /\ parsed_data_from_filename = None
    /\ parsed_data = None
    /\ table = <<>>
    /\ \A i \in DOMAIN calls : calls[i] \notin DbOperations

LineWithoutTextSwallowed ==
  /\ ocr_result # None
  /\ ocr_result[1] \in MalformedPayloads
  /\ "analyzeResult" \in DOMAIN ocr_result[1]
  /\ "readResults" \in DOMAIN ocr_result[1].analyzeResult
  /\ Len(ocr_result[1].analyzeResult.readResults) = 1
  /\ "lines" \in DOMAIN ocr_result[1].analyzeResult.readResults[1]
  /\ exc = Some(ExtractionFailed)
  /\ pc = "returned"

(***************************************************************************)
(* Two invocations of blob_trigger side by side.  The hosting runtime      *)
(* starts one invocation per uploaded blob; each invocation runs the       *)
(* statements of blob_trigger on its own locals, and the invocations meet  *)
(* only at the recognition backend and at the AssetData table.             *)
(***************************************************************************)
Ingestions == {1, 2}

CP_F_X9_Manual_pdf ==
  <<"C","P","-","F","-","X","9","_","M","a","n","u","a","l",".","p","d","f">>
robot_MAINTENANCE_pdf ==
  <<"r","o","b","o","t","_","M","A","I","N","T","E","N","A","N","C","E",".","p","d","f">>
scan_pdf == <<"s","c","a","n",".","p","d","f">>

\* the uploaded blobs: myblob.name and what myblob.read() returns, given as
\* the lines the recognition finds in the content
Blobs ==
  { [name |-> CP_F_X9_Manual_pdf,    content |-> <<FESTO, SN1234>>],
    [name |-> robot_MAINTENANCE_pdf, content |-> <<Siemens, Motor>>],
    [name |-> scan_pdf,              content |-> <<ABB, Robot, Manual>>] }

\* the locators the backend hands out, in the order of the submissions
LocatorOrder == <<"https://ocr/operations/a", "https://ocr/operations/b">>

\* the locals of an invocation that has just been started on blob b
Locals(b) ==
  [blob               |-> b,
   pc                 |-> "read",
   blob_content       |-> None,
   operation_location |-> None,
   poll_attempts      |-> 0,
   ocr_result         |-> None,
   extracted_text     |-> None,
   parsed_data        |-> None,
   exc                |-> None,
   db_exc             |-> None]

\* the single-ingestion variables stand still while two invocations run
SingleIngestionIdle ==
  /\ name = <<>>
  /\ pc = "idle"
  /\ calls = <<>>
  /\ slept = 0
  /\ polled = {}
  /\ response = None
  /\ operation_location = None
  /\ poll_attempts = 0
  /\ poll_response = None
  /\ poll_log = <<>>
  /\ ocr_result = None
  /\ extracted_text = None
  /\ parsed_data_from_text = None
  /\ parsed_data_from_filename = None
  /\ parsed_data = None
  /\ table = <<>>
  /\ exc = None
  /\ db_exc = None

singleVars ==
  <<name, pc, calls, slept, polled, response, operation_location, poll_attempts, poll_response,
    poll_log, ocr_result, extracted_text, parsed_data_from_text,
    parsed_data_from_filename, parsed_data, table, exc, db_exc>>

ConcurrentInit ==
  /\ SingleIngestionIdle
  /\ \E b1 \in Blobs, b2 \in Blobs :
       /\ b1.name # b2.name
       /\ ingestion = <<Locals(b1), Locals(b2)>>
  /\ jobs = <<>>
  /\ asset_data = <<>>

\* the backend's replies to a submission: it accepts the content under a new
\* locator, or it refuses
AcceptReply(locator) == Response(202, ("Operation-Location" :> locator), None)

RefuseReply == Response(500, <<>>, None)

\* the backend's replies to a poll of url: the state of the job filed under it
JobReplies(url) ==
  LET known == {k \in 1..Len(jobs) : jobs[k].locator = url}
  IN IF known = {}
     THEN {Response(404, <<>>, None)}
     ELSE LET job == jobs[CHOOSE k \in known : TRUE]
          IN { Response(200, <<>>, Some([status |-> "running"])),
               Response(200, <<>>, Some(Succeeded(job.content))),
               Response(200, <<>>, Some(FailedPayload)) }

\* variant: operation_location is a module-level name, so a poll goes to the
\* job submitted last by any invocation
PollTargetLatestJob(i) == jobs[Len(jobs)].locator

\* line 70: requests.get(operation_location) reads the local of process_ocr
PollTarget(i) == ingestion[i].operation_location[1]

\* line 23: myblob.read()
ReadBlobIn(i) ==
  /\ ingestion[i].pc = "read"
  /\ \E ok \in BOOLEAN :
       ingestion' =
         IF ok
         THEN [ingestion EXCEPT ![i].blob_content = Some(ingestion[i].blob.content),
                                ![i].pc = "submit"]
         ELSE [ingestion EXCEPT ![i].exc = Some(Exc("OSError", "read failed")),
                                ![i].pc = "except"]
  /\ UNCHANGED <<singleVars, jobs, asset_data>>

\* lines 52-66 in invocation i
SubmitIn(i) ==
  /\ ingestion[i].pc = "submit"
  /\ Len(jobs) < Len(LocatorOrder)
  /\ \E accepted \in BOOLEAN :
       LET locator == LocatorOrder[Len(jobs) + 1]
           reply == IF accepted THEN AcceptReply(locator) ELSE RefuseReply
           out == SubmitOutcome(reply)
       IN /\ jobs' = IF accepted
                     THEN Append(jobs, [locator |-> locator,
                                        content |-> ingestion[i].blob_content[1]])
                     ELSE jobs
          /\ ingestion' =
               IF out.raised # None
               THEN [ingestion EXCEPT ![i].exc = out.raised, ![i].pc = "except"]
               ELSE [ingestion EXCEPT ![i].operation_location = out.location,
                                      ![i].poll_attempts = 0,
                                      ![i].pc = "poll"]
  /\ UNCHANGED <<singleVars, asset_data>>

\* lines 68-84 in invocation i: one iteration of the poll loop
PollIn(i) ==
  /\ ingestion[i].pc = "poll"
  /\ LoopCondition(ingestion[i].poll_attempts)
  /\ \E reply \in JobReplies(PollTarget(i)) :
       LET out == PollOutcome(reply)
       IN ingestion' =
            CASE out.do = "return" ->
                   [ingestion EXCEPT ![i].ocr_result = reply.json,
                                     ![i].pc = "extract_text"]
              [] out.do = "raise" ->
                   [ingestion EXCEPT ![i].exc = out.raised, ![i].pc = "except"]
              [] OTHER ->
                   [ingestion EXCEPT ![i].poll_attempts = @ + 1]
  /\ UNCHANGED <<singleVars, jobs, asset_data>>

\* lines 68 and 86 in invocation i
PollTimeoutIn(i) ==
  /\ ingestion[i].pc = "poll"
  /\ ~LoopCondition(ingestion[i].poll_attempts)
  /\ ingestion' = [ingestion EXCEPT ![i].exc = Some(TimedOut), ![i].pc = "except"]
  /\ UNCHANGED <<singleVars, jobs, asset_data>>

\* line 27 in invocation i
ExtractTextIn(i) ==
  /\ ingestion[i].pc = "extract_text"
  /\ LET r == extract_text(ingestion[i].ocr_result[1])
     IN ingestion' =
          IF r.raised # None
          THEN [ingestion EXCEPT ![i].exc = r.raised, ![i].pc = "except"]
          ELSE [ingestion EXCEPT ![i].extracted_text = Some(r.value), ![i].pc = "parse"]
  /\ UNCHANGED <<singleVars, jobs, asset_data>>

\* lines 30-36 in invocation i
ParseFieldsIn(i) ==
  /\ ingestion[i].pc = "parse"
  /\ LET from_text == parse_extracted_text(ingestion[i].extracted_text[1])
         from_filename == extract_from_filename(ingestion[i].blob.name)
     IN ingestion' = [ingestion EXCEPT ![i].parsed_data = Some(MergeDicts(from_text, from_filename)),
                                       ![i].pc = "save"]
  /\ UNCHANGED <<singleVars, jobs, asset_data>>

\* line 39 and save_to_db in invocation i: its own connection, one insert,
\* one commit
SaveToDbIn(i) ==
  /\ ingestion[i].pc = "save"
  /\ \E behaviour \in DbBehaviours :
       LET e == DbError(behaviour)
       IN /\ asset_data' =
               IF e = None
               THEN Append(asset_data, Row(ingestion[i].blob.name,
                                           ingestion[i].extracted_text[1],
                                           ingestion[i].parsed_data[1]))
               ELSE asset_data
          /\ ingestion' =
               IF e = None \/ SaveToDbCatches(e[1])
               THEN [ingestion EXCEPT ![i].db_exc = e, ![i].pc = "returned"]
               ELSE [ingestion EXCEPT ![i].exc = e, ![i].pc = "except"]
  /\ UNCHANGED <<singleVars, jobs>>

\* lines 40-41 in invocation i
HandleExceptionIn(i) ==
  /\ ingestion[i].pc = "except"
  /\ ingestion' = [ingestion EXCEPT ![i].pc = IF BlobTriggerCatches(ingestion[i].exc[1])
                                              THEN "returned" ELSE "propagated"]
  /\ UNCHANGED <<singleVars, jobs, asset_data>>

ConcurrentNext ==
  \/ \E i \in Ingestions : ReadBlobIn(i)
  \/ \E i \in Ingestions : SubmitIn(i)
  \/ \E i \in Ingestions : PollIn(i)
  \/ \E i \in Ingestions : PollTimeoutIn(i)
  \/ \E i \in Ingestions : ExtractTextIn(i)
  \/ \E i \in Ingestions : ParseFieldsIn(i)
  \/ \E i \in Ingestions : SaveToDbIn(i)
  \/ \E i \in Ingestions : HandleExceptionIn(i)

ConcurrentSpec == ConcurrentInit /\ [][ConcurrentNext]_vars

\* the record one ingestion of blob b writes when it runs alone and its job
\* and its commit succeed
RecordOfSequentialRun(b) ==
  LET text == extract_text(Succeeded(b.content)).value
  IN Row(b.name, text, MergeDicts(parse_extracted_text(text), extract_from_filename(b.name)))

\* invocation i has returned with its row committed
Committed(i) ==
  /\ ingestion[i].pc = "returned"
  /\ ingestion[i].exc = None
  /\ ingestion[i].db_exc = None

\* C14: when two ingestions of different files run concurrently, under any
\* interleaving of their steps, every persisted record is the record the
\* ingestion of its file writes when run alone (its FileName, ExtractedText
\* and fields come from that file's name and that file's recognition result),
\* and the persisted records are exactly those of the ingestions that
\* committed, one each.
ConcurrentRecordsAreSequentialRecords ==
  /\ Range(asset_data) = {RecordOfSequentialRun(ingestion[i].blob) : i \in {j \in Ingestions : Committed(j)}}
  /\ Len(asset_data) = Cardinality({i \in Ingestions : Committed(i)})

\* C14 happens: both invocations committed, the first to submit being the
\* last to persist
OvertakenIngestionPersisted ==
  /\ \A i \in Ingestions : Committed(i)
  /\ Len(jobs) = 2
  /\ Len(asset_data) = 2
  /\ \E i \in Ingestions :
       /\ jobs[1].content = ingestion[i].blob.content
       /\ ingestion[i].operation_location = Some(jobs[1].locator)
       /\ asset_data[2].FileName = ingestion[i].blob.name

====
